---- MODULE Spec2Model ----
(***************************************************************************)
(* A model of the optimisation notebooks.  Every notebook cell declares    *)
(* decision variables, assembles a linear objective and linear             *)
(* constraints from literal tables, calls an external solver and prints.   *)
(*                                                                         *)
(* The module has two parts.                                               *)
(*   1. The formulations: the literal data of each cell, and the solver    *)
(*      they are handed to.  The solver is modelled by an exhaustive       *)
(*      search that fixes one decision variable per step.                  *)
(*   2. The notebook kernel: the names the cells bind and read, the        *)
(*      objects shared between cells, and what each cell prints.           *)
(***************************************************************************)
EXTENDS Integers, Sequences, FiniteSets, TLC

VARIABLES
    form,    \* the formulation (cell) whose problem is being solved
    den,     \* common denominator of the values tried (1: integer variables)
    k,       \* number of decision variables fixed so far
    slack,   \* per constraint: right-hand side minus the fixed part of the row
    obj,     \* objective value of the fixed part (in units of 1/den)
    asg,     \* the values fixed so far (kept only by formulations that track them)
    nb,      \* the notebook whose kernel is running
    ns,      \* the kernel's namespace: for each name, what it is bound to
    ort,     \* the OR-tools solver object the name solver refers to
    pm,      \* the Pyomo model object the name model refers to
    last,    \* the cell executed last: what it raised and what it printed
    ordered  \* how many cells have run, if they ran top to bottom; else -1

searchVars == <<form, den, k, slack, obj, asg>>

kernelVars == <<nb, ns, ort, pm, last, ordered>>

vars == <<form, den, k, slack, obj, asg, nb, ns, ort, pm, last, ordered>>

----------------------------------------------------------------------------
(* Helpers on sequences of integers.                                       *)

Max(a, b) == IF a >= b THEN a ELSE b

RECURSIVE SeqMax(_)
SeqMax(s) == IF Len(s) = 0 THEN 0 ELSE Max(Head(s), SeqMax(Tail(s)))

\* The first n values of f, written out as a tuple.
RECURSIVE AsTuple(_, _)
AsTuple(f, n) == IF n = 0 THEN <<>> ELSE Append(AsTuple(f, n - 1), f[n])

\* The position of v in the branching order.
PosIn(order, v) == CHOOSE t \in 1..Len(order) : order[t] = v

----------------------------------------------------------------------------
(* A problem as the solver receives it: sense, objective coefficients c,   *)
(* constraint rows (row, op, rhs) and the order in which the search fixes  *)
(* the variables.  The other fields are derived from the rows: for each    *)
(* variable the rows it occurs in (touch), those that bound it from above  *)
(* whatever the other variables are (bounding), those it is the last       *)
(* variable of and that bound it from below (closing) and those it is the  *)
(* last variable of and that bound nothing before they are complete        *)
(* (verify); for each row the position of its last variable (closeAt) and  *)
(* whether all its coefficients are non-negative (nonneg).  greedy holds   *)
(* the last variable of the order when the problem is a maximisation, its  *)
(* objective coefficient is not negative and every row it occurs in is a   *)
(* non-negative row bounded from above: raising it to its largest value    *)
(* breaks no row and lowers no objective value, so the search bounds the   *)
(* node by that one value.                                                 *)

MkProblem(sense, c, cons, order, track) ==
    LET n == Len(c)
        m == Len(cons)
        nonneg  == [i \in 1..m |-> \A j \in 1..n : cons[i].row[j] >= 0]
        closeAt == [i \in 1..m |->
                      SeqMax([j \in 1..n |->
                                 IF cons[i].row[j] # 0 THEN PosIn(order, j) ELSE 0])]
        touch   == [j \in 1..n |-> {i \in 1..m : cons[i].row[j] # 0}]
    IN  [ sense    |-> sense,
          c        |-> AsTuple(c, n),
          cons     |-> AsTuple([i \in 1..m |->
                                  [row |-> AsTuple(cons[i].row, n),
                                   op  |-> cons[i].op,
                                   rhs |-> cons[i].rhs]], m),
          order    |-> AsTuple(order, n),
          track    |-> track,
          touch    |-> AsTuple([j \in 1..n |->
                                  SelectSeq(AsTuple([i \in 1..m |-> i], m),
                                            LAMBDA i : i \in touch[j])], n),
          bounding |-> AsTuple([j \in 1..n |->
                                  {i \in touch[j] :
                                      nonneg[i] /\ cons[i].op \in {"eq", "le"}}], n),
          closing  |-> AsTuple([j \in 1..n |->
                                  {i \in touch[j] :
                                      /\ nonneg[i]
                                      /\ closeAt[i] = PosIn(order, j)
                                      /\ cons[i].op \in {"eq", "ge"}}], n),
          verify   |-> AsTuple([j \in 1..n |->
                                  {i \in touch[j] :
                                      ~nonneg[i] /\ closeAt[i] = PosIn(order, j)}], n),
          greedy   |-> {j \in 1..n :
                           /\ PosIn(order, j) = n
                           /\ sense = "max" /\ c[j] >= 0
                           /\ touch[j] # {}
                           /\ \A i \in touch[j] : nonneg[i] /\ cons[i].op = "le"},
          closeAt  |-> AsTuple(closeAt, m),
          nonneg   |-> AsTuple(nonneg, m) ]

NumVars(P) == Len(P.c)

RowMajor(n) == [t \in 1..n |-> t]

\* Column-major order over an rows x cols table stored row-major.
ColMajor(rows, cols) ==
    [t \in 1..(rows * cols) |-> ((t - 1) % rows) * cols + ((t - 1) \div rows) + 1]

----------------------------------------------------------------------------
(* The rice-allocation problem, OR-tools formulation                       *)
(* (rice notebook, cells "Define decision variables" and "Objective        *)
(* function").  x[(f, r)] is created for f in fields, r in rice_types.     *)

fields == <<"I", "II", "III">>

rice_types == <<"IR8", "CBC", "IR132">>

\* The keys of x in the order the IntVars are created.
x_keys == [v \in 1..(Len(fields) * Len(rice_types)) |->
              <<fields[((v - 1) \div Len(rice_types)) + 1],
                rice_types[((v - 1) % Len(rice_types)) + 1]>>]

\* The matrix with the yield of IR132 on field III raised from 6 to 7.
yield_matrix_altered ==
    [ I   |-> [IR8 |-> 4, CBC |-> 6, IR132 |-> 5],
      II  |-> [IR8 |-> 8, CBC |-> 9, IR132 |-> 4],
      III |-> [IR8 |-> 6, CBC |-> 7, IR132 |-> 7] ]

yield_matrix ==
    [ I   |-> [IR8 |-> 4, CBC |-> 6, IR132 |-> 5],
      II  |-> [IR8 |-> 8, CBC |-> 9, IR132 |-> 4],
      III |-> [IR8 |-> 6, CBC |-> 7, IR132 |-> 6] ]

\* solver.Sum(x[(f, r)] * yield_matrix[f][r] for f in fields for r in rice_types)
ortools_objective == [v \in 1..Len(x_keys) |-> yield_matrix[x_keys[v][1]][x_keys[v][2]]]

\* solver.Sum(x[(f, r)] for f in fields) for one rice type r
RiceRow(r) == [v \in 1..Len(x_keys) |-> IF x_keys[v][2] = r THEN 1 ELSE 0]

\* solver.Sum(x[(f, r)] for r in rice_types) for one field f
FieldRow(f) == [v \in 1..Len(x_keys) |-> IF x_keys[v][1] = f THEN 1 ELSE 0]

\* x[(f, r)] alone
VarRow(f, r) == [v \in 1..Len(x_keys) |-> IF x_keys[v] = <<f, r>> THEN 1 ELSE 0]

Eq(row, rhs) == [row |-> row, op |-> "eq", rhs |-> rhs]

Le(row, rhs) == [row |-> row, op |-> "le", rhs |-> rhs]

Ge(row, rhs) == [row |-> row, op |-> "ge", rhs |-> rhs]

\* The six solver.Add(...) calls of the objective/constraints cell.
ortools_constraints ==
    << Eq(RiceRow("IR8"), 30), Eq(RiceRow("CBC"), 20), Eq(RiceRow("IR132"), 40),
       Eq(FieldRow("I"), 25), Eq(FieldRow("II"), 25), Eq(FieldRow("III"), 40) >>

\* solver.Add(x[('I', 'IR8')] == 0) of the scenario (b) cell.
ortools_no_ir8_field_i == Eq(VarRow("I", "IR8"), 0)

P_ortools_a ==
    MkProblem("max", ortools_objective, ortools_constraints,
              RowMajor(Len(x_keys)), FALSE)

P_ortools_b ==
    MkProblem("max", ortools_objective,
              Append(ortools_constraints, ortools_no_ir8_field_i),
              RowMajor(Len(x_keys)), FALSE)

(* The rice-allocation problem, Pyomo formulation (cells "Sets / Decision  *)
(* variables", "Objective: Maximize yield" and scenario (b)).             *)

\* The coefficients with the yield of IR132 on field III raised from 6 to 7.
yield_coefficients_altered ==
    [key \in {<<f, r>> : f \in {"I", "II", "III"}, r \in {"IR8", "CBC", "IR132"}} |->
        CASE key = <<"I", "IR8">> -> 4   [] key = <<"I", "CBC">> -> 6
          [] key = <<"I", "IR132">> -> 5 [] key = <<"II", "IR8">> -> 8
          [] key = <<"II", "CBC">> -> 9  [] key = <<"II", "IR132">> -> 4
          [] key = <<"III", "IR8">> -> 6 [] key = <<"III", "CBC">> -> 7
          [] key = <<"III", "IR132">> -> 7]

yield_coefficients ==
    [key \in {<<f, r>> : f \in {"I", "II", "III"}, r \in {"IR8", "CBC", "IR132"}} |->
        CASE key = <<"I", "IR8">> -> 4   [] key = <<"I", "CBC">> -> 6
          [] key = <<"I", "IR132">> -> 5 [] key = <<"II", "IR8">> -> 8
          [] key = <<"II", "CBC">> -> 9  [] key = <<"II", "IR132">> -> 4
          [] key = <<"III", "IR8">> -> 6 [] key = <<"III", "CBC">> -> 7
          [] key = <<"III", "IR132">> -> 6]

pyomo_objective == [v \in 1..Len(x_keys) |-> yield_coefficients[x_keys[v]]]

\* total_hectares_ir8, _cbc, _ir132, total_field_i, _ii, _iii
pyomo_constraints ==
    << Eq(RiceRow("IR8"), 30), Eq(RiceRow("CBC"), 20), Eq(RiceRow("IR132"), 40),
       Eq(FieldRow("I"), 25), Eq(FieldRow("II"), 25), Eq(FieldRow("III"), 40) >>

\* model.no_ir8_field_i
pyomo_no_ir8_field_i == Eq(VarRow("I", "IR8"), 0)

P_pyomo_a ==
    MkProblem("max", pyomo_objective, pyomo_constraints, RowMajor(Len(x_keys)), FALSE)

P_pyomo_b ==
    MkProblem("max", pyomo_objective, Append(pyomo_constraints, pyomo_no_ir8_field_i),
              RowMajor(Len(x_keys)), FALSE)

(* The rice-allocation problem, PuLP formulation (Problem 8a and 8b).     *)
(* x[i][j] is the area of rice type i on field type j.                    *)

rice_type == <<30, 20, 40>>

field_type == <<25, 25, 40>>

productivity8a == << <<4, 8, 6>>, <<6, 9, 7>>, <<5, 4, 6>> >>

productivity8b == << <<0, 8, 6>>, <<6, 9, 7>>, <<5, 4, 6>> >>

RowOf(v, dim_j) == ((v - 1) \div dim_j) + 1

ColOf(v, dim_j) == ((v - 1) % dim_j) + 1

\* pulp.lpSum([[table[i][j] * x[i][j] for i in range(dim_i)] for j in range(dim_j)])
TableObjective(table) ==
    [v \in 1..(Len(table) * Len(table[1])) |->
        table[RowOf(v, Len(table[1]))][ColOf(v, Len(table[1]))]]

\* for i: lpSum(x[i][j] for j) == rowTotal[i]; for j: lpSum(x[i][j] for i) == colTotal[j]
TableConstraints(rowTotal, colTotal) ==
    [i \in 1..Len(rowTotal) |->
        Eq([v \in 1..(Len(rowTotal) * Len(colTotal)) |->
               IF RowOf(v, Len(colTotal)) = i THEN 1 ELSE 0], rowTotal[i])]
    \o
    [j \in 1..Len(colTotal) |->
        Eq([v \in 1..(Len(rowTotal) * Len(colTotal)) |->
               IF ColOf(v, Len(colTotal)) = j THEN 1 ELSE 0], colTotal[j])]

P_pulp_8a ==
    MkProblem("max", TableObjective(productivity8a),
              TableConstraints(rice_type, field_type),
              RowMajor(Len(rice_type) * Len(field_type)), FALSE)

P_pulp_8b ==
    MkProblem("max", TableObjective(productivity8b),
              TableConstraints(rice_type, field_type),
              RowMajor(Len(rice_type) * Len(field_type)), FALSE)

RiceForms == {"ortools_a", "ortools_b", "pyomo_a", "pyomo_b", "pulp_8a", "pulp_8b"}

----------------------------------------------------------------------------
(* Problem 6a, the transportation problem (main notebook).  x[i][j] is the *)
(* amount shipped from factory i to warehouse j.                           *)

factory == <<5, 15, 20, 30>>

warehouse6a == <<10, 10, 10, 20, 20>>

\* The table with the distance from factory 4 to warehouse 5 lowered from 11 to 10.
distance_altered ==
    << <<5, 1, 4, 6, 7>>, <<3, 4, 2, 7, 8>>, <<4, 3, 1, 7, 9>>, <<6, 5, 4, 9, 10>> >>

distance ==
    << <<5, 1, 4, 6, 7>>, <<3, 4, 2, 7, 8>>, <<4, 3, 1, 7, 9>>, <<6, 5, 4, 9, 11>> >>

\* PuLP cell: the columns of x are summed one after the other.
P_pulp_6a ==
    MkProblem("min", TableObjective(distance), TableConstraints(factory, warehouse6a),
              ColMajor(Len(factory), Len(warehouse6a)), FALSE)

(* Pyomo/couenne cell of Problem 6a: the same literals, bound again.       *)

pyomo6a_factory == <<5, 15, 20, 30>>

pyomo6a_warehouse6a == <<10, 10, 10, 20, 20>>

pyomo6a_distance ==
    << <<5, 1, 4, 6, 7>>, <<3, 4, 2, 7, 8>>, <<4, 3, 1, 7, 9>>, <<6, 5, 4, 9, 11>> >>

\* sum(distance[i][j] * model.x[i, j] for i in range(dim_i) for j in range(dim_j))
pyomo6a_obj ==
    [v \in 1..(Len(pyomo6a_factory) * Len(pyomo6a_warehouse6a)) |->
        pyomo6a_distance[RowOf(v, Len(pyomo6a_warehouse6a))][ColOf(v, Len(pyomo6a_warehouse6a))]]

\* sum(model.x[i, j] for j in range(dim_j)) == factory[i]
factory_constraint(i) ==
    Eq([v \in 1..(Len(pyomo6a_factory) * Len(pyomo6a_warehouse6a)) |->
           IF RowOf(v, Len(pyomo6a_warehouse6a)) = i THEN 1 ELSE 0], pyomo6a_factory[i])

\* sum(model.x[i, j] for i in range(dim_i)) == warehouse6a[j]
warehouse_constraint(j) ==
    Eq([v \in 1..(Len(pyomo6a_factory) * Len(pyomo6a_warehouse6a)) |->
           IF ColOf(v, Len(pyomo6a_warehouse6a)) = j THEN 1 ELSE 0], pyomo6a_warehouse6a[j])

P_pyomo_6a ==
    MkProblem("min", pyomo6a_obj,
              [i \in 1..Len(pyomo6a_factory) |-> factory_constraint(i)]
                  \o [j \in 1..Len(pyomo6a_warehouse6a) |-> warehouse_constraint(j)],
              ColMajor(Len(pyomo6a_factory), Len(pyomo6a_warehouse6a)), FALSE)

P6aForms == {"pulp_6a", "pyomo_6a"}

(* Problem 6b, PuLP cell: the demands of the warehouses changed, the       *)
(* supplies and the distances bound again to the same literals.            *)

pulp6b_factory == <<5, 15, 20, 30>>

warehouse6b == <<10, 10, 15, 15, 20>>

\* The table with the distance from factory 4 to warehouse 5 lowered from 11 to 10.
pulp6b_distance_altered ==
    << <<5, 1, 4, 6, 7>>, <<3, 4, 2, 7, 8>>, <<4, 3, 1, 7, 9>>, <<6, 5, 4, 9, 10>> >>

pulp6b_distance ==
    << <<5, 1, 4, 6, 7>>, <<3, 4, 2, 7, 8>>, <<4, 3, 1, 7, 9>>, <<6, 5, 4, 9, 11>> >>

P_pulp_6b ==
    MkProblem("min", TableObjective(pulp6b_distance),
              TableConstraints(pulp6b_factory, warehouse6b),
              ColMajor(Len(pulp6b_factory), Len(warehouse6b)), FALSE)

----------------------------------------------------------------------------
(* Problem 3 (main notebook): maximise the profit of four products.  The   *)
(* notebook holds the PuLP cell twice (first and second copy) and one      *)
(* OR-tools/SCIP cell.                                                     *)

\* prob += 1000 * x1 + 1500 * x2 + 2500 * x3 + 3000 * x4
pulp3_objective == <<1000, 1500, 2500, 3000>>

\* prob += 9 * x1 + 25 * x2 + 35 * x3 + 43 * x4 <= 1460   (first copy)
pulp3_copy1_resource == Le(<<9, 25, 35, 43>>, 1460)

\* The constraints of the PuLP cell, first copy, in the order they are added.
pulp3_copy1_constraints ==
    << Ge(<<1, 0, 0, 0>>, 5), Ge(<<0, 1, 0, 0>>, 5), Ge(<<0, 0, 1, 0>>, 5),
       Ge(<<0, 0, 0, 1>>, 5), Eq(<<1, 1, 1, 1>>, 50), pulp3_copy1_resource >>

P_pulp_3_copy1 ==
    MkProblem("max", pulp3_objective, pulp3_copy1_constraints, RowMajor(4), TRUE)

\* prob += 9 * x1 + 25 * x2 + 25 * x3 + 43 * x4 <= 1460   (second copy)
pulp3_copy2_resource == Le(<<9, 25, 25, 43>>, 1460)

pulp3_copy2_constraints ==
    << Ge(<<1, 0, 0, 0>>, 5), Ge(<<0, 1, 0, 0>>, 5), Ge(<<0, 0, 1, 0>>, 5),
       Ge(<<0, 0, 0, 1>>, 5), Eq(<<1, 1, 1, 1>>, 50), pulp3_copy2_resource >>

P_pulp_3_copy2 ==
    MkProblem("max", pulp3_objective, pulp3_copy2_constraints, RowMajor(4), TRUE)

\* solver.Maximize(1000 * x1 + 1500 * x2 + 2500 * x3 + 3000 * x4)
ortools3_objective == <<1000, 1500, 2500, 3000>>

\* The six solver.Add(...) calls of the OR-tools cell, in order.
ortools3_constraints ==
    << Eq(<<1, 1, 1, 1>>, 50), Le(<<9, 25, 25, 43>>, 1460),
       Ge(<<1, 0, 0, 0>>, 5), Ge(<<0, 1, 0, 0>>, 5), Ge(<<0, 0, 1, 0>>, 5),
       Ge(<<0, 0, 0, 1>>, 5) >>

P_ortools_3 ==
    MkProblem("max", ortools3_objective, ortools3_constraints, RowMajor(4), TRUE)

P3Forms == {"pulp_3_copy1", "pulp_3_copy2", "ortools_3"}

----------------------------------------------------------------------------
(* Problem 4 (main notebook): the PuLP cell, present in both copies.       *)
(* 1 = MC, 2 = MM, 3 = FC, 4 = FM.                                         *)

\* prob += 30*x1 + 25*x2 + 28*x3 + 20*x4
pulp4_objective == <<30, 25, 28, 20>>

\* The balance row with 28*x3 replaced by 20*x3.
pulp4_balance_altered == Eq(<<30, -25, 20, -20>>, 0)

\* prob += 30*x1 + 28*x3 == 25*x2 + 20*x4
pulp4_balance == Eq(<<30, -25, 28, -20>>, 0)

\* The constraints with x3 + x4 == 20 replaced by x3 + x4 == 18.
pulp4_constraints_18 ==
    << Eq(<<1, 1, 0, 0>>, 32), Eq(<<0, 0, 1, 1>>, 18), pulp4_balance >>

\* prob += x1 + x2 == 32;  prob += x3 + x4 == 20;  the balance row
pulp4_constraints ==
    << Eq(<<1, 1, 0, 0>>, 32), Eq(<<0, 0, 1, 1>>, 20), pulp4_balance >>

P_pulp_4 ==
    MkProblem("max", pulp4_objective, pulp4_constraints, RowMajor(4), TRUE)

P4Forms == {"pulp_4"}

----------------------------------------------------------------------------
(* Problem 5, PuLP cell (second copy of the main notebook): four integer   *)
(* variables xA, xB, xC, xD.  The first row, 0.08 xA + 0.12 xB + 0.3 xC +  *)
(* 0.21 xD <= 350, is written in hundredths.  The search fixes xD first    *)
(* and xA last.                                                            *)

pulp5_objective == <<250000, 350000, 380000, 850000>>

\* The rows with the bound of the second one raised from 1000 to 1004.
pulp5_constraints_1004 ==
    << Le(<<8, 12, 30, 21>>, 35000),
       Le(<<4, 9, 7, 12>>, 1004),
       Le(<<1, 1, 3, 40>>, 2500) >>

pulp5_constraints ==
    << Le(<<8, 12, 30, 21>>, 35000),
       Le(<<4, 9, 7, 12>>, 1000),
       Le(<<1, 1, 3, 40>>, 2500) >>

P_pulp_5 == MkProblem("max", pulp5_objective, pulp5_constraints, <<4, 3, 2, 1>>, TRUE)

----------------------------------------------------------------------------
(* Problem 7, SciPy cell: linprog minimises obj_fun, the negated hours,    *)
(* over FI, FII, FIII, MI, MII, MIII >= 0 with lhs_eq x <= rhs_eq (the     *)
(* cell passes them as A_ub and b_ub); it prints -results.fun and          *)
(* np.around(results.x).                                                   *)

\* The objective with the coefficient of FIII changed from -7 to -12.
obj_fun_altered == <<-10, -8, -12, -8, -9, -11>>

obj_fun == <<-10, -8, -7, -8, -9, -11>>

lhs_eq ==
    << <<1, 1, 1, 0, 0, 0>>,
       <<0, 0, 0, 1, 1, 1>>,
       <<1, 0, 0, 1, 0, 0>>,
       <<0, 1, 0, 0, 1, 0>>,
       <<0, 0, 1, 0, 0, 1>> >>

rhs_eq == <<2, 3, 1, 2, 3>>

P_scipy_7 ==
    MkProblem("min", obj_fun, [i \in 1..Len(lhs_eq) |-> Le(lhs_eq[i], rhs_eq[i])],
              RowMajor(Len(obj_fun)), TRUE)

\* np.around of v/d: the nearest integer, a half going to the even one.
around(v, d) ==
    LET q == v \div d
        r == v % d
    IN  IF 2 * r < d THEN q
        ELSE IF 2 * r > d THEN q + 1
        ELSE IF q % 2 = 0 THEN q ELSE q + 1

----------------------------------------------------------------------------
(* The formulation each cell hands to its solver.                          *)

Problem(f) ==
    CASE f = "ortools_a" -> P_ortools_a
      [] f = "ortools_b" -> P_ortools_b
      [] f = "pyomo_a"   -> P_pyomo_a
      [] f = "pyomo_b"   -> P_pyomo_b
      [] f = "pulp_8a"   -> P_pulp_8a
      [] f = "pulp_8b"   -> P_pulp_8b
      [] f = "pulp_6a"   -> P_pulp_6a
      [] f = "pyomo_6a"  -> P_pyomo_6a
      [] f = "pulp_6b"   -> P_pulp_6b
      [] f = "pulp_5"    -> P_pulp_5
      [] f = "scipy_7"   -> P_scipy_7
      [] f = "pulp_3_copy1" -> P_pulp_3_copy1
      [] f = "pulp_3_copy2" -> P_pulp_3_copy2
      [] f = "ortools_3" -> P_ortools_3
      [] f = "pulp_4"    -> P_pulp_4

----------------------------------------------------------------------------
(* The solver: an exhaustive search.  Each step fixes the next variable of *)
(* the branching order to a non-negative value v/den and keeps the node    *)
(* only if no constraint is already violated: a row all of whose variables *)
(* are fixed must hold, and a row of non-negative coefficients bounded     *)
(* from above must not be exceeded by its fixed part.  Every variable      *)
(* occurs in at least one row that bounds it from above.                   *)

InitSlack(P, d) == AsTuple([i \in 1..Len(P.cons) |-> P.cons[i].rhs * d], Len(P.cons))

\* The largest value of variable j the rows bounding it leave room for in s.
Cap(P, j, s) ==
    LET caps == {s[i] \div P.cons[i].row[j] : i \in P.bounding[j]}
    IN  CHOOSE m \in caps : \A o \in caps : m <= o

\* The smallest value of variable j the search tries in s: what the rows
\* it closes can accept, or its largest value when it is greedy.
Floor(P, j, s) ==
    LET need == {(s[i] + P.cons[i].row[j] - 1) \div P.cons[i].row[j] : i \in P.closing[j]}
    IN  IF j \in P.greedy THEN Cap(P, j, s)
        ELSE IF need = {} THEN 0 ELSE Max(0, CHOOSE m \in need : \A o \in need : m >= o)

\* Row i, complete, with s left of its right-hand side.
RowOK(P, i, s) ==
    CASE P.cons[i].op = "eq" -> s = 0
      [] P.cons[i].op = "le" -> s >= 0
      [] P.cons[i].op = "ge" -> s <= 0

\* s with v times the coefficients of variable j taken off the first t rows
\* the variable occurs in.
RECURSIVE TakeOff(_, _, _, _, _)
TakeOff(P, j, v, s, t) ==
    IF t = 0
    THEN s
    ELSE [TakeOff(P, j, v, s, t - 1) EXCEPT ![P.touch[j][t]] = @ - P.cons[P.touch[j][t]].row[j] * v]

\* Fix the next variable.  Between Floor and Cap no row of non-negative
\* coefficients is violated; the other rows are tested when complete.
Branch ==
    \E P \in {Problem(form)} :
        /\ k < NumVars(P)
        /\ \E j \in {P.order[k + 1]} :
             \E v \in Floor(P, j, slack)..Cap(P, j, slack) :
               \E s \in {TakeOff(P, j, v, slack, Len(P.touch[j]))} :
                 /\ \A i \in P.verify[j] : RowOK(P, i, s[i])
                 /\ k' = k + 1
                 /\ slack' = s
                 /\ obj' = obj + P.c[j] * v
                 /\ asg' = IF P.track THEN [asg EXCEPT ![j] = v] ELSE asg
        /\ UNCHANGED <<form, den>>
        /\ UNCHANGED kernelVars

\* A leaf of the search: every variable fixed, every constraint satisfied.
Complete == k = NumVars(Problem(form))

InitSearch(forms, dens) ==
    /\ form \in forms
    /\ den \in dens
    /\ k = 0
    /\ slack = InitSlack(Problem(form), den)
    /\ obj = 0
    /\ asg = IF Problem(form).track
             THEN [j \in 1..NumVars(Problem(form)) |-> 0] ELSE <<>>
    /\ nb = "none" /\ ns = <<>> /\ ort = <<>> /\ pm = <<>> /\ last = <<>>
    /\ ordered = 0

InitRice == InitSearch(RiceForms, {1})

SpecRice == InitRice /\ [][Branch]_vars

----------------------------------------------------------------------------
(* C1: the rice-allocation MILP has maximum total yield exactly 585: no    *)
(* feasible integer allocation of the unrestricted formulations (OR-tools, *)
(* Pyomo, PuLP 8a) yields more than 585, and one attains it.               *)
RiceMaxYield585 ==
    (form \in {"ortools_a", "pyomo_a", "pulp_8a"} /\ Complete) => obj <= 585

RiceYield585Attained ==
    form = "ortools_a" /\ Complete /\ obj = 585

(* C2: forbidding IR8 on field I does not affect the total harvest: with   *)
(* the extra constraint x[I, IR8] = 0 (OR-tools and Pyomo scenario (b); in *)
(* PuLP 8b the yield of that cell set to 0) no feasible integer allocation *)
(* exceeds 585, and 585 is still attained.                                 *)
RiceNoIR8FieldIMax585 ==
    (form \in {"ortools_b", "pyomo_b", "pulp_8b"} /\ Complete) => obj <= 585

RiceNoIR8FieldI585Attained ==
    form = "pyomo_b" /\ Complete /\ obj = 585 /\ Len(slack) = 7

----------------------------------------------------------------------------
(* A point x against a problem: the left-hand side of a row, whether the   *)
(* row holds, whether every row holds and the variables are non-negative,  *)
(* and the objective value.                                                *)

RECURSIVE Dot(_, _, _)
Dot(a, x, n) == IF n = 0 THEN 0 ELSE Dot(a, x, n - 1) + a[n] * x[n]

RowHolds(con, x) ==
    CASE con.op = "eq" -> Dot(con.row, x, Len(x)) = con.rhs
      [] con.op = "le" -> Dot(con.row, x, Len(x)) <= con.rhs
      [] con.op = "ge" -> Dot(con.row, x, Len(x)) >= con.rhs

Feasible(P, x) ==
    /\ \A j \in 1..Len(x) : x[j] >= 0
    /\ \A i \in 1..Len(P.cons) : RowHolds(P.cons[i], x)

Value(P, x) == Dot(P.c, x, Len(x))

----------------------------------------------------------------------------
(* Problem 4.  MaxDen bounds the denominators of the rational points the   *)
(* search tries; with den = 1 the variables are integers, as the cell      *)
(* declares them.                                                          *)

MaxDen == 11

InitP4 == InitSearch(P4Forms, 1..MaxDen)

SpecP4 == InitP4 /\ [][Branch]_vars

(* C7: Problem 4 has no integer feasible point: no non-negative integers   *)
(* x1..x4 satisfy x1 + x2 = 32, x3 + x4 = 20 and                           *)
(* 30*x1 + 28*x3 = 25*x2 + 20*x4; the integer search never completes, and  *)
(* 55*x1 + 48*x3 differs from 1200 at every node that has fixed x1 and x3. *)
P4NoIntegerPoint ==
    (form \in P4Forms /\ den = 1) =>
        /\ ~Complete
        /\ k >= 3 => 55 * asg[1] + 48 * asg[3] # 1200

\* The integer search at its nearest miss: x1 = 4, x2 = 28, x3 = 20 fixed,
\* x4 = 0 forced, and the balance row left at 680 against 700.
P4IntegerSearchStuck ==
    /\ form = "pulp_4" /\ den = 1 /\ k = 3
    /\ asg = <<4, 28, 20, 0>>
    /\ ~ENABLED Branch

(* C8: without the integrality requirement the constraint system of        *)
(* Problem 4 can be met: every point the relaxed search completes is a     *)
(* non-negative rational point with x1 + x2 = 32, x3 + x4 = 20 and         *)
(* 30*x1 + 28*x3 = 25*x2 + 20*x4, and (48/11, 304/11, 20, 0) is one.       *)
P4RelaxedPointMeetsSystem ==
    (form \in P4Forms /\ Complete) =>
        /\ den > 1
        /\ \A j \in 1..4 : asg[j] >= 0
        /\ asg[1] + asg[2] = 32 * den
        /\ asg[3] + asg[4] = 20 * den
        /\ 30 * asg[1] + 28 * asg[3] = 25 * asg[2] + 20 * asg[4]

P4RationalPointReached ==
    /\ form = "pulp_4" /\ den = 11 /\ Complete
    /\ asg = <<48, 304, 220, 0>>

----------------------------------------------------------------------------
(* Problem 3.                                                              *)

InitP3 == InitSearch(P3Forms, {1})

SpecP3 == InitP3 /\ [][Branch]_vars

(* C9: all formulations of Problem 3 (PuLP first copy, PuLP second copy,   *)
(* OR-tools) have the same integer optimum, 120500, attained at            *)
(* x = (5, 5, 24, 16): the point is feasible and worth 120500 in each      *)
(* formulation, and no feasible point of any of them is worth more.        *)
P3SameOptimum120500 ==
    /\ \A f \in P3Forms :
          /\ Feasible(Problem(f), <<5, 5, 24, 16>>)
          /\ Value(Problem(f), <<5, 5, 24, 16>>) = 120500
    /\ (form \in P3Forms /\ Complete) => obj <= 120500

\* What the search finds instead.  The second copy and the OR-tools cell
\* have optimum 120500, at (5, 5, 24, 16) only.
P3Copy2AndOrtoolsOptimum ==
    (form \in {"pulp_3_copy2", "ortools_3"} /\ Complete) =>
        /\ obj <= 120500
        /\ obj = 120500 => asg = <<5, 5, 24, 16>>

\* The first copy, with 35*x3 in the resource row, has optimum 107000, at
\* (16, 5, 7, 22) only, and (5, 5, 24, 16) is not feasible in it.
P3Copy1Optimum ==
    /\ ~Feasible(Problem("pulp_3_copy1"), <<5, 5, 24, 16>>)
    /\ (form = "pulp_3_copy1" /\ Complete) =>
          /\ obj <= 107000
          /\ obj = 107000 => asg = <<16, 5, 7, 22>>

P3Copy1Reaches107000 ==
    form = "pulp_3_copy1" /\ Complete /\ obj = 107000 /\ asg = <<16, 5, 7, 22>>

P3OrtoolsReaches120500 ==
    form = "ortools_3" /\ Complete /\ obj = 120500 /\ asg = <<5, 5, 24, 16>>

----------------------------------------------------------------------------
(* The PuLP cell and the Pyomo cell of Problem 6a hand the solver the same  *)
(* objective vector and the same constraint rows, so one search serves     *)
(* both.                                                                   *)
InitP6a == InitSearch({"pulp_6a"}, {1})

SpecP6a == InitP6a /\ [][Branch]_vars

(* C10: the transportation problem 6a has minimum total cost exactly 435,  *)
(* for the PuLP and for the Pyomo formulation: the two formulations are    *)
(* the same problem, no shipment plan meeting every supply and every       *)
(* demand costs less than 435, and one costs 435.                          *)
P6aMinCost435 ==
    /\ Problem("pyomo_6a") = Problem("pulp_6a")
    /\ (form \in P6aForms /\ Complete) => obj >= 435

P6aCost435Attained ==
    form = "pulp_6a" /\ Complete /\ obj = 435 /\ \A i \in 1..Len(slack) : slack[i] = 0

----------------------------------------------------------------------------
InitP6b == InitSearch({"pulp_6b"}, {1})

SpecP6b == InitP6b /\ [][Branch]_vars

(* C11: with the demands (10, 10, 15, 15, 20) of Problem 6b the minimum    *)
(* total transport cost is exactly 405: no shipment plan meeting every     *)
(* supply and every demand costs less than 405, and one costs 405.         *)
P6bMinCost405 == (form = "pulp_6b" /\ Complete) => obj >= 405

P6bCost405Attained ==
    form = "pulp_6b" /\ Complete /\ obj = 405 /\ \A i \in 1..Len(slack) : slack[i] = 0

----------------------------------------------------------------------------
InitP5 == InitSearch({"pulp_5"}, {1})

SpecP5 == InitP5 /\ [][Branch]_vars

(* C12: Problem 5 with integer variables has optimum exactly 68500000,     *)
(* attained at (xA, xB, xC, xD) = (70, 0, 0, 60): that point meets the     *)
(* three constraints and has that value, and no point found by the search  *)
(* has a larger one.                                                       *)
P5Optimum68500000 ==
    /\ Feasible(Problem("pulp_5"), <<70, 0, 0, 60>>)
    /\ Value(Problem("pulp_5"), <<70, 0, 0, 60>>) = 68500000
    /\ (form = "pulp_5" /\ Complete) => obj <= 68500000

P5OptimumAttained ==
    form = "pulp_5" /\ Complete /\ obj = 68500000 /\ asg = <<70, 0, 0, 60>>

----------------------------------------------------------------------------
(* Problem 7 has continuous variables.  MaxDen7 bounds the denominators of *)
(* the rational points the search tries.                                   *)
MaxDen7 == 4

InitP7 == InitSearch({"scipy_7"}, 1..MaxDen7)

SpecP7 == InitP7 /\ [][Branch]_vars

(* C13: Problem 7 has optimal value exactly 51, attained at FI = 1,        *)
(* FII = 1, FIII = 0, MI = 0, MII = 0, MIII = 3: that point meets the five *)
(* constraints and has the value 51, no point has a larger value, and a    *)
(* point of value 51 is that point, which the rounding the cell applies    *)
(* before printing leaves as it is.                                        *)
P7Optimum51 ==
    /\ Feasible(Problem("scipy_7"), <<1, 1, 0, 0, 0, 3>>)
    /\ -Value(Problem("scipy_7"), <<1, 1, 0, 0, 0, 3>>) = 51
    /\ (form = "scipy_7" /\ Complete) =>
          /\ -obj <= 51 * den
          /\ -obj = 51 * den =>
                /\ asg = [j \in 1..6 |-> den * <<1, 1, 0, 0, 0, 3>>[j]]
                /\ [j \in 1..6 |-> around(asg[j], den)] = <<1, 1, 0, 0, 0, 3>>

\* The optimum found on the grid of halves.
P7OptimumAttained ==
    /\ form = "scipy_7" /\ den = 2 /\ Complete
    /\ -obj = 102
    /\ [j \in 1..6 |-> around(asg[j], den)] = <<1, 1, 0, 0, 0, 3>>

----------------------------------------------------------------------------
(* The notebook kernel.  A kernel holds one namespace; executing a cell    *)
(* runs its statements in order against it and stops at the first          *)
(* exception, keeping what the statements before it have bound or changed. *)
(* One action executes one cell.                                           *)

\* How often one cell may add rows to the same OR-tools solver object.
MaxAdds == 2

\* How many batches of nine IntVars one OR-tools solver object may receive.
MaxBatches == 2

\* The names of the rice notebook that a cell reads before binding them
\* itself, and the two names holding a solve's return value.  pyomo_names
\* stands for the seven names imported from pyomo.environ by one statement.
RiceNames ==
    { "pywraplp", "solver", "fields", "rice_types", "x", "status",
      "pyomo_names", "model", "result" }

\* The rice notebook with its Pyomo variables cell above the cell that
\* imports Pyomo and creates the model.
RiceCells_variables_first ==
    << "ortools_import", "ortools_create_solver", "ortools_variables",
       "ortools_objective_constraints", "ortools_solve_a", "ortools_solve_b",
       "pyomo_variables", "pyomo_model", "pyomo_objective_constraints",
       "pyomo_solve_a", "pyomo_solve_b", "pulp_8a", "pulp_8b" >>

\* The code cells of the rice notebook, top to bottom.
RiceCells ==
    << "ortools_import", "ortools_create_solver", "ortools_variables",
       "ortools_objective_constraints", "ortools_solve_a", "ortools_solve_b",
       "pyomo_model", "pyomo_variables", "pyomo_objective_constraints",
       "pyomo_solve_a", "pyomo_solve_b", "pulp_8a", "pulp_8b" >>

FreshNs(names) == [n \in names |-> "unbound"]

\* No OR-tools solver object; a solver object as CreateSolver returns it.
NoOrt == [made |-> FALSE, nvars |-> 0, objective |-> FALSE, rows |-> 0, no_ir8 |-> 0]

NewOrt == [made |-> TRUE, nvars |-> 0, objective |-> FALSE, rows |-> 0, no_ir8 |-> 0]

\* No Pyomo model; a model as ConcreteModel() returns it.  comps lists the
\* components of the block in declaration order.
NoPm == [made |-> FALSE, comps |-> <<>>]

NewPm == [made |-> TRUE, comps |-> <<>>]

\* What a cell hands to a solver: nothing, or a model of so many
\* objectives, constraints and variables.
NotHanded == [given |-> FALSE, objectives |-> 0, constraints |-> 0, variables |-> 0]

Handed(o, c, v) == [given |-> TRUE, objectives |-> o, constraints |-> c, variables |-> v]

\* How a cell's execution ended: the exception that stopped it ("none": it
\* ran to its end), the parts of a solve result it printed, what it handed
\* to a solver, the status the solve returned ("none": no solve returned)
\* and the branch on that status the cell took.
Outcome(e, o, h, st, b) ==
    [exc |-> e, out |-> o, handed |-> h, status |-> st, branch |-> b]

Stopped(e) == Outcome(e, {}, NotHanded, "none", "none")

Quiet == Stopped("none")

NoLast ==
    [cell |-> "none", exc |-> "none", out |-> {}, value_lines |-> 0,
     handed |-> NotHanded, status |-> "none", branch |-> "none", fresh |-> FALSE]

\* A PuLP cell that prints the variable values only.
PulpPrints_values_only == {"values"}

\* The prints that end a PuLP cell, on no condition: "Status: ...",
\* "Optimal value: ..." and one line per variable.
PulpPrints == {"status", "objective", "values"}

(* The cells of Linear_programming_optimization_with_Python_final.ipynb,   *)
(* top to bottom: the first copy of the notebook (c1_), then the second    *)
(* (c2_).  A row tells the library of the cell, the names it reads without *)
(* binding them, the names its imports bind, whether it calls a solve and  *)
(* on how many variables and constraints, what it prints after the solve,  *)
(* whether it prints a message on a status other than optimal, whether it  *)
(* prints a message when no solver object was created, and what it has     *)
(* printed before it first evaluates a solution value.                     *)

Row(c, lib, needs, binds, solves, nvars, ncons, prints, message, guard, early) ==
    [cell |-> c, lib |-> lib, needs |-> needs, binds |-> binds, solves |-> solves,
     nvars |-> nvars, ncons |-> ncons, prints |-> prints, message |-> message,
     guard |-> guard, early |-> early]

ImportRow(c, binds) == Row(c, "none", {}, binds, FALSE, 0, 0, {}, FALSE, FALSE, {})

PulpRow(c, nvars, ncons) ==
    Row(c, "pulp", {}, {"pulp"}, TRUE, nvars, ncons, PulpPrints, FALSE, FALSE, PulpPrints)

PyomoRow(c, needs, binds, nvars, ncons, prints, early) ==
    Row(c, "pyomo", needs, binds, TRUE, nvars, ncons, prints, FALSE, FALSE, early)

OrtoolsRow(c, solves, nvars, ncons, prints, message, guard) ==
    Row(c, "ortools", {}, {"pywraplp"}, solves, nvars, ncons, prints, message, guard,
        prints)

\* A linprog result without a solution has fun and x None: the status line
\* is printed, then "-results.fun" raises inside the print of the "Optimal
\* value" line, before that line is printed.
ScipyRow(c, nvars, ncons) ==
    Row(c, "scipy", {}, {"linprog"}, TRUE, nvars, ncons,
        {"status", "objective", "values"}, FALSE, FALSE, {"status"})

MainCells ==
    << ImportRow("c1_import_pulp", {"pulp"}),
       PyomoRow("c1_p1a_pyomo", {}, {"pyomo_names"}, 4, 2, {"objective", "values"}, {}),
       PyomoRow("c1_p1b_pyomo", {"pyomo_names"}, {}, 4, 3, {"objective", "values"}, {}),
       OrtoolsRow("c1_p1a_ortools", TRUE, 4, 2, {"objective", "status", "values"},
                  FALSE, TRUE),
       OrtoolsRow("c1_p1b_ortools", TRUE, 4, 3, {"objective", "status", "values"},
                  FALSE, TRUE),
       PulpRow("c1_p2_pulp", 4, 6),
       PyomoRow("c1_p2_pyomo", {}, {"pyomo_names"}, 4, 6, {"objective", "values"}, {}),
       OrtoolsRow("c1_p2_ortools", TRUE, 4, 7, {"status", "objective", "values"},
                  TRUE, TRUE),
       PulpRow("c1_p3_pulp", 4, 6),
       OrtoolsRow("c1_p3_ortools", TRUE, 4, 6, {"objective", "values"}, TRUE, TRUE),
       PulpRow("c1_p4_pulp", 4, 3),
       OrtoolsRow("c1_p4_ortools", FALSE, 0, 0, {}, FALSE, FALSE),
       OrtoolsRow("c1_p5_ortools", TRUE, 4, 3, {"objective", "values"}, FALSE, FALSE),
       PulpRow("c1_p6a_pulp", 20, 9),
       PyomoRow("c1_p6a_pyomo", {}, {"pyomo_names"}, 20, 9,
                {"status", "objective", "values"}, {"status"}),
       PulpRow("c1_p6b_pulp", 20, 9),
       ScipyRow("c1_p7_scipy", 6, 5),
       PulpRow("c1_p8a_pulp", 9, 6),
       PulpRow("c1_p8b_pulp", 9, 6),
       ImportRow("c2_import_pulp", {"pulp"}),
       PyomoRow("c2_p1a_pyomo", {}, {"pyomo_names"}, 4, 2, {"objective", "values"}, {}),
       PyomoRow("c2_p1b_pyomo", {"pyomo_names"}, {}, 4, 3, {"objective", "values"}, {}),
       PulpRow("c2_p2_pulp", 4, 6),
       PyomoRow("c2_p2_pyomo", {}, {"pyomo_names"}, 4, 6, {"objective", "values"}, {}),
       PulpRow("c2_p3_pulp", 4, 6),
       PulpRow("c2_p4_pulp", 4, 3),
       PulpRow("c2_p5_pulp", 4, 3),
       PulpRow("c2_p6a_pulp", 20, 9),
       PulpRow("c2_p6b_pulp", 20, 9),
       ScipyRow("c2_p7_scipy", 6, 5),
       PulpRow("c2_p8a_pulp", 9, 6),
       PulpRow("c2_p8b_pulp", 9, 6) >>

\* The names bound by the imports of that notebook.
MainNames == {"pulp", "pyomo_names", "pywraplp", "linprog"}

\* What linprog reports: success or not.
ScipyStatuses == {"linprog_success", "linprog_failure"}

\* The statuses that tell an optimal solution, by library.
OptimalStatuses == {"OPTIMAL", "Optimal", "ok_optimal", "linprog_success"}

\* What solve() of a Pyomo solver without its executable raises.
PyomoUnavailable == {"RuntimeError", "ApplicationError"}

\* The names of the cells of a notebook, top to bottom.
MainCellNames == AsTuple([i \in 1..Len(MainCells) |-> MainCells[i].cell], Len(MainCells))

Cells(notebook) == IF notebook = "rice" THEN RiceCells ELSE MainCellNames

\* The position of a cell in its notebook.
CellIndex(cells, c) == CHOOSE i \in 1..Len(cells) : cells[i] = c

\* The kernel had bound no name.
FreshKernel == \A n \in DOMAIN ns : ns[n] = "unbound"

\* The cells that print the values of all their variables with one print
\* call: "print(f\"Optimal solution: xA = {xA.varValue}, xB = ...\")" of the
\* Problem 5 PuLP cell and "print(f\"Optimal solution: FI = {roundRes[0]},
\* ...\")" of the Problem 7 cells.
OneLineCells == {"c2_p5_pulp", "c1_p7_scipy", "c2_p7_scipy"}

\* The number of lines on which a cell prints the values of its variables:
\* one line, or one line per variable from a loop over the variables (the
\* nine pairs of fields and rice_types in the rice notebook) or from one
\* print statement for each.
ValueLines(c) ==
    IF c \in OneLineCells THEN 1
    ELSE IF \E i \in 1..Len(RiceCells) : RiceCells[i] = c THEN 9
    ELSE MainCells[CellIndex(MainCellNames, c)].nvars

\* The end of a cell's execution: the namespace and the objects it leaves
\* and how it ended.  ordered counts the cells executed top to bottom since
\* the kernel started, -1 once a cell was executed out of that order.
Finish(c, ns2, ort2, pm2, r) ==
    /\ ns' = ns2
    /\ ort' = ort2
    /\ pm' = pm2
    /\ last' = [cell |-> c, exc |-> r.exc, out |-> r.out,
                value_lines |-> IF "values" \in r.out THEN ValueLines(c) ELSE 0,
                handed |-> r.handed, status |-> r.status, branch |-> r.branch,
                fresh |-> FreshKernel]
    /\ ordered' = IF ordered = CellIndex(Cells(nb), c) - 1 THEN ordered + 1 ELSE -1
    /\ UNCHANGED nb
    /\ UNCHANGED searchVars

\* The kernel process dies and is started again: every name and object is
\* lost.
KernelDies(c) ==
    /\ ns' = FreshNs(DOMAIN ns)
    /\ ort' = NoOrt
    /\ pm' = NoPm
    /\ last' = [cell |-> c, exc |-> "KernelDied", out |-> {}, value_lines |-> 0,
                handed |-> NotHanded, status |-> "none", branch |-> "none",
                fresh |-> FreshKernel]
    /\ ordered' = 0
    /\ UNCHANGED nb
    /\ UNCHANGED searchVars

\* solver is bound anew.  The OR-tools solver object it was bound to is
\* destroyed with its variables, which x may still refer to.
RebindSolver(f, t) ==
    [f EXCEPT !["solver"] = t,
              !["x"] = IF @ = "intvars" /\ f["solver"] = "ortools" THEN "intvars_stale" ELSE @]

OrtAfterRebind == IF ns["solver"] = "ortools" THEN NoOrt ELSE ort

\* What using solver as an OR-tools solver (solver.IntVar, solver.Add,
\* solver.Maximize, solver.Solve) raises, by what solver is bound to.
OrtoolsUse(t) ==
    CASE t = "unbound"        -> "NameError"
      [] t = "None"           -> "AttributeError"
      [] t = "cplex"          -> "AttributeError"
      [] t = "unknown_solver" -> "RuntimeError"
      [] OTHER                -> "none"

\* What x[(f, r)] raises, by what x is bound to.
XLookup(t) ==
    CASE t = "unbound"    -> "NameError"
      [] t = "dict_empty" -> "KeyError"
      [] t = "lpvars"     -> "TypeError"
      [] OTHER            -> "none"

\* The values pywraplp's Solve() returns: the seven result statuses of
\* pywraplp.Solver.
OrtoolsStatuses ==
    {"OPTIMAL", "FEASIBLE", "INFEASIBLE", "UNBOUNDED", "ABNORMAL", "MODEL_INVALID",
     "NOT_SOLVED"}

\* A Solve() that leaves out the rows added by the scenario-(b) cell.
OrtHanded_rows_only(o) == Handed(IF o.objective THEN 1 ELSE 0, o.rows, o.nvars)

\* What the OR-tools solver object is asked to solve: Solve() takes no
\* argument, it solves everything Add and Maximize have put into the solver.
OrtHanded(o) == Handed(IF o.objective THEN 1 ELSE 0, o.rows + o.no_ir8, o.nvars)

\* src/unnamed/part_000, "from ortools.linear_solver import pywraplp".
ortools_import ==
    /\ nb = "rice"
    /\ Finish("ortools_import", [ns EXCEPT !["pywraplp"] = "bound"], ort, pm, Quiet)

\* "solver = pywraplp.Solver.CreateSolver('SCIP')": a solver object, or None
\* when the build has no SCIP.
ortools_create_solver ==
    /\ nb = "rice"
    /\ IF ns["pywraplp"] = "unbound"
       THEN Finish("ortools_create_solver", ns, ort, pm, Stopped("NameError"))
       ELSE \/ Finish("ortools_create_solver", RebindSolver(ns, "ortools"), NewOrt, pm, Quiet)
            \/ Finish("ortools_create_solver", RebindSolver(ns, "None"), OrtAfterRebind, pm,
                      Quiet)

\* fields, rice_types and x = {} are bound, then the loop asks solver for
\* the nine IntVars.
ortools_variables ==
    /\ nb = "rice"
    /\ LET ns1 == [ns EXCEPT !["fields"] = "bound", !["rice_types"] = "bound",
                             !["x"] = "dict_empty"]
       IN  IF OrtoolsUse(ns["solver"]) # "none"
           THEN Finish("ortools_variables", ns1, ort, pm, Stopped(OrtoolsUse(ns["solver"])))
           ELSE /\ ort.nvars < 9 * MaxBatches
                /\ Finish("ortools_variables", [ns1 EXCEPT !["x"] = "intvars"],
                          [ort EXCEPT !.nvars = @ + 9], pm, Quiet)

\* The first statement that reads a name of another cell is
\* solver.Maximize(solver.Sum(x[(f, r)] * ... for f in fields for r in
\* rice_types)): solver, then fields, then rice_types, then x.  Variables of
\* a destroyed solver object are dangling references.
ortools_objective_constraints ==
    /\ nb = "rice"
    /\ LET e == IF OrtoolsUse(ns["solver"]) # "none" THEN OrtoolsUse(ns["solver"])
                ELSE IF ns["fields"] = "unbound" THEN "NameError"
                ELSE XLookup(ns["x"])
       IN  IF e # "none"
           THEN Finish("ortools_objective_constraints", ns, ort, pm, Stopped(e))
           ELSE /\ ort.rows < 6 * MaxAdds
                /\ \/ Finish("ortools_objective_constraints", ns,
                             [ort EXCEPT !.objective = TRUE, !.rows = @ + 6], pm, Quiet)
                   \/ /\ ns["x"] = "intvars_stale"
                      /\ KernelDies("ortools_objective_constraints")

\* "status = solver.Solve()" and the two branches on it.  add_no_ir8 tells
\* scenario (b), whose cell first adds x[('I', 'IR8')] == 0.
OrtoolsSolveCell(c, add_no_ir8) ==
    LET e0 == IF OrtoolsUse(ns["solver"]) # "none" THEN OrtoolsUse(ns["solver"])
              ELSE IF add_no_ir8 THEN XLookup(ns["x"]) ELSE "none"
        ort1 == IF add_no_ir8 THEN [ort EXCEPT !.no_ir8 = @ + 1] ELSE ort
    IN  IF e0 # "none"
        THEN Finish(c, ns, ort, pm, Stopped(e0))
        ELSE /\ add_no_ir8 => ort.no_ir8 < MaxAdds
             /\ \/ /\ add_no_ir8 /\ ns["x"] = "intvars_stale"
                   /\ KernelDies(c)
                \/ \E st \in OrtoolsStatuses :
                     LET ns1 == [ns EXCEPT !["status"] = "ortools_status"]
                         e1  == IF ns["fields"] = "unbound" THEN "NameError"
                                ELSE XLookup(ns["x"])
                     IN  IF st # "OPTIMAL"
                         THEN Finish(c, ns1, ort1, pm,
                                     Outcome("none", {"not_optimal_message"},
                                             OrtHanded(ort1), st, "else"))
                         ELSE IF e1 # "none"
                         THEN Finish(c, ns1, ort1, pm,
                                     Outcome(e1, {"status"}, OrtHanded(ort1), st, "optimal"))
                         ELSE \/ Finish(c, ns1, ort1, pm,
                                        Outcome("none", {"status", "values"},
                                                OrtHanded(ort1), st, "optimal"))
                              \/ /\ ns["x"] = "intvars_stale"
                                 /\ KernelDies(c)

ortools_solve_a == nb = "rice" /\ OrtoolsSolveCell("ortools_solve_a", FALSE)

ortools_solve_b == nb = "rice" /\ OrtoolsSolveCell("ortools_solve_b", TRUE)

----------------------------------------------------------------------------
(* The Pyomo cells of the rice notebook.  The model is a block: an ordered *)
(* list of named components.                                               *)

Var(name) == [name |-> name, kind |-> "Var", stale |-> FALSE]

Objective(name) == [name |-> name, kind |-> "Objective", stale |-> FALSE]

Constraint(name) == [name |-> name, kind |-> "Constraint", stale |-> FALSE]

HasComponent(comps, name) == \E i \in 1..Len(comps) : comps[i].name = name

CountKind(comps, kind) == Cardinality({i \in 1..Len(comps) : comps[i].kind = kind})

CountName(comps, name) == Cardinality({i \in 1..Len(comps) : comps[i].name = name})

\* Assigning a component to an attribute that is not yet one of the block
\* and appending it, whatever the block holds.
SetComponent_accumulating(comps, c) == Append(comps, c)

\* model.<name> = component.  A component of that name is deleted first
\* ("Implicitly replacing the Component attribute ..."), then the new one
\* is added at the end.
SetComponent(comps, c) ==
    LET Other(d) == d.name # c.name
    IN  Append(SelectSeq(comps, Other), c)

\* The warning logged when an assignment replaces a component of the block.
Replacing(comps, names) ==
    IF \E n \in names : HasComponent(comps, n)
    THEN {"implicitly_replacing_warning"} ELSE {}

RECURSIVE SetComponents(_, _)
SetComponents(comps, cs) ==
    IF cs = <<>> THEN comps
    ELSE SetComponents(SetComponent(comps, Head(cs)), Tail(cs))

\* What the objective/constraints cell assigns, in its order.
pyomo_components ==
    << Objective("objective"),
       Constraint("total_hectares_ir8"), Constraint("total_hectares_cbc"),
       Constraint("total_hectares_ir132"), Constraint("total_field_i"),
       Constraint("total_field_ii"), Constraint("total_field_iii") >>

\* The objective and the constraints built over a Var that the block no
\* longer holds.
Outdated(comps) ==
    [i \in 1..Len(comps) |->
        IF comps[i].kind = "Var" THEN comps[i] ELSE [comps[i] EXCEPT !.stale = TRUE]]

AnyStale(comps) == \E i \in 1..Len(comps) : comps[i].stale

\* What solver.solve(model) hands to the solver: the block's objectives,
\* constraints and the nine variables of each Var component.
PmHanded(m) ==
    Handed(CountKind(m.comps, "Objective"), CountKind(m.comps, "Constraint"),
           9 * CountKind(m.comps, "Var"))

\* The import statement and "model = ConcreteModel()".
pyomo_model ==
    /\ nb = "rice"
    /\ Finish("pyomo_model", [ns EXCEPT !["pyomo_names"] = "bound", !["model"] = "bound"],
              ort, NewPm, Quiet)

\* fields and rice_types are bound, then
\* "model.x = Var(fields, rice_types, domain=NonNegativeIntegers)".
pyomo_variables ==
    /\ nb = "rice"
    /\ LET ns1 == [ns EXCEPT !["fields"] = "bound", !["rice_types"] = "bound"]
       IN  IF ns["pyomo_names"] = "unbound"
           THEN Finish("pyomo_variables", ns1, ort, pm, Stopped("NameError"))
           ELSE Finish("pyomo_variables", ns1, ort,
                       [pm EXCEPT !.comps = SetComponent(AsTuple(Outdated(@), Len(@)),
                                                         Var("x"))],
                       Outcome("none", Replacing(pm.comps, {"x"}), NotHanded, "none",
                               "none"))

\* "model.objective = Objective(expr=sum(... model.x[f, r] for f in fields
\* for r in rice_types), sense=maximize)" and the six named constraints.
pyomo_objective_constraints ==
    /\ nb = "rice"
    /\ LET e == IF ns["pyomo_names"] = "unbound" \/ ns["fields"] = "unbound"
                THEN "NameError"
                ELSE IF ~HasComponent(pm.comps, "x") THEN "AttributeError"
                ELSE "none"
       IN  IF e # "none"
           THEN Finish("pyomo_objective_constraints", ns, ort, pm, Stopped(e))
           ELSE Finish("pyomo_objective_constraints", ns, ort,
                       [pm EXCEPT !.comps = SetComponents(@, pyomo_components)],
                       Outcome("none",
                               Replacing(pm.comps,
                                         {pyomo_components[i].name : i \in 1..7}),
                               NotHanded, "none", "none"))

\* What SolverFactory('cplex', executable=...) returns: the CPLEX shell
\* solver, or an UnknownSolver object when the executable is missing.
SolverFactoryResults == {"cplex", "unknown_solver"}

\* solve() of a solver that raises nothing, whatever SolverFactory returned.
SolveRaises_never(sv) == "none"

\* What "solver.solve(model, tee=True)" raises before it solves: the solve
\* method of an UnknownSolver object raises "RuntimeError: Attempting to use
\* an unavailable solver."
SolveRaises(sv) == IF sv = "unknown_solver" THEN "RuntimeError" ELSE "none"

\* Values of result.solver.status and of result.solver.termination_condition
\* that a solve can return, as far as the branches tell them apart: ok and
\* a status that is not ok; optimal, infeasible and any other condition.
SolverStatuses == {"ok", "warning"}

TerminationConditions == {"optimal", "infeasible", "other"}

\* The name under which a (status, termination condition) pair is recorded.
ResultKey(st, tc) == st \o "_" \o tc

PyomoResults == {ResultKey(st, tc) : st \in SolverStatuses, tc \in TerminationConditions}

\* A first test that looks at the status alone.
PyomoBranch_status_only(st, tc) ==
    IF st = "ok" THEN "optimal"
    ELSE IF tc = "infeasible" THEN "infeasible"
    ELSE "other"

\* "if result.solver.status == 'ok' and result.solver.termination_condition
\* == 'optimal': ... elif result.solver.termination_condition ==
\* 'infeasible': ... else: ...": the branch the printing code takes.
PyomoBranch(st, tc) ==
    IF st = "ok" /\ tc = "optimal" THEN "optimal"
    ELSE IF tc = "infeasible" THEN "infeasible"
    ELSE "other"

\* The solve cells: scenario (b) first assigns model.no_ir8_field_i; then
\* "solver = SolverFactory(...)", "result = solver.solve(model, tee=True)"
\* and the three branches.  solve() of an UnknownSolver raises; a solver
\* given a block without exactly one objective, or with components over a
\* replaced Var, may reject it.
PyomoSolveCell(c, add_no_ir8) ==
    LET e0 == IF ns["pyomo_names"] = "unbound" THEN "NameError"
              ELSE IF add_no_ir8 /\ ~HasComponent(pm.comps, "x") THEN "AttributeError"
              ELSE "none"
        pm1 == IF add_no_ir8
               THEN [pm EXCEPT !.comps = SetComponent(@, Constraint("no_ir8_field_i"))]
               ELSE pm
        w   == IF add_no_ir8 THEN Replacing(pm.comps, {"no_ir8_field_i"}) ELSE {}
    IN  IF e0 # "none"
        THEN Finish(c, ns, ort, pm, Stopped(e0))
        ELSE \E sv \in SolverFactoryResults :
               LET ns1 == RebindSolver(ns, sv)
               IN  IF SolveRaises(sv) # "none"
                   THEN Finish(c, ns1, OrtAfterRebind, pm1,
                               Outcome(SolveRaises(sv), w, NotHanded, "none", "none"))
                   ELSE \/ /\ CountKind(pm1.comps, "Objective") # 1 \/ AnyStale(pm1.comps)
                           /\ Finish(c, ns1, OrtAfterRebind, pm1,
                                     Outcome("ValueError", w, PmHanded(pm1), "none", "none"))
                        \/ \E st \in SolverStatuses, tc \in TerminationConditions :
                             LET ns2 == [ns1 EXCEPT !["result"] = "bound"]
                                 res == ResultKey(st, tc)
                                 br  == PyomoBranch(st, tc)
                                 e1  == IF ns["fields"] = "unbound" THEN "NameError"
                                        ELSE IF ~HasComponent(pm1.comps, "x")
                                        THEN "AttributeError"
                                        ELSE "none"
                             IN  CASE br = "optimal" ->
                                        Finish(c, ns2, OrtAfterRebind, pm1,
                                               Outcome(e1,
                                                       IF e1 = "none"
                                                       THEN w \cup {"status", "values"}
                                                       ELSE w \cup {"status"},
                                                       PmHanded(pm1), res, br))
                                   [] br = "infeasible" ->
                                        Finish(c, ns2, OrtAfterRebind, pm1,
                                               Outcome("none",
                                                       w \cup {"no_feasible_message"},
                                                       PmHanded(pm1), res, br))
                                   [] br = "other" ->
                                        Finish(c, ns2, OrtAfterRebind, pm1,
                                               Outcome("none", w \cup {"status"},
                                                       PmHanded(pm1), res, br))

pyomo_solve_a == nb = "rice" /\ PyomoSolveCell("pyomo_solve_a", FALSE)

pyomo_solve_b == nb = "rice" /\ PyomoSolveCell("pyomo_solve_b", TRUE)

----------------------------------------------------------------------------
(* The PuLP cells of the rice notebook bind every name they read: import,  *)
(* problem, tables, x (a list of lists of LpVariable), then                *)
(* "status = prob.solve()" and the unconditional prints.                   *)

\* Prints that follow the solve only when the status is Optimal.
PulpOut_guarded(st, prints) == IF st = "Optimal" THEN prints ELSE {"status"}

\* What a PuLP cell prints after "status = prob.solve()": the print
\* statements follow the solve with no test of status between them.
PulpOut(st, prints) == prints

\* The values of pulp.LpStatus.
PulpStatuses == {"Optimal", "Not Solved", "Infeasible", "Unbounded", "Undefined"}

PulpCell(c) ==
    \E st \in PulpStatuses :
        Finish(c, [ns EXCEPT !["x"] = "lpvars", !["status"] = "pulp_status"], ort, pm,
               Outcome("none", PulpOut(st, PulpPrints), Handed(1, 6, 9), st, "none"))

pulp_8a == nb = "rice" /\ PulpCell("pulp_8a")

pulp_8b == nb = "rice" /\ PulpCell("pulp_8b")

----------------------------------------------------------------------------
(* Executing the cell of a row of MainCells.  Its first statement that     *)
(* reads a name of another cell raises NameError before anything is bound. *)
(* CreateSolver may return None, after which the first solver.NumVar or    *)
(* solver.IntVar raises; a Pyomo solver without its executable raises in   *)
(* solve(); after a solve that is not optimal a Pyomo or SciPy cell may    *)
(* raise where it first evaluates a solution value.                        *)

\* A guard that ends the cell after its message.
OrtoolsUnavailable_stops(r) ==
    IF r.guard
    THEN Outcome("none", {"unavailable_message"}, NotHanded, "none", "none")
    ELSE Outcome("AttributeError", {}, NotHanded, "none", "none")

\* CreateSolver returned None.  "if not solver: print(...); pass" prints
\* and goes on; the next statement, solver.NumVar or solver.IntVar, raises
\* AttributeError on None and ends the cell before any constraint, solve or
\* print of a result.
OrtoolsUnavailable(r) ==
    Outcome("AttributeError", IF r.guard THEN {"unavailable_message"} ELSE {},
            NotHanded, "none", "none")

MainOutcomes(r) ==
    CASE r.lib = "pulp" ->
           {Outcome("none", PulpOut(st, r.prints), Handed(1, r.ncons, r.nvars), st,
                    "none") : st \in PulpStatuses}
      [] r.lib = "ortools" ->
           {OrtoolsUnavailable(r)}
           \cup
           {Outcome("none",
                    IF r.message /\ st # "OPTIMAL"
                    THEN r.prints \cup {"not_optimal_message"} ELSE r.prints,
                    Handed(1, r.ncons, r.nvars), st, "none") : st \in OrtoolsStatuses}
      [] r.lib = "pyomo" ->
           {Stopped(e) : e \in PyomoUnavailable}
           \cup
           {Outcome("none", r.prints, Handed(1, r.ncons, r.nvars), st, "none") :
               st \in PyomoResults}
           \cup
           {Outcome("ValueError", r.early, Handed(1, r.ncons, r.nvars), st, "none") :
               st \in PyomoResults \ OptimalStatuses}
      [] r.lib = "scipy" ->
           {Outcome("none", r.prints, Handed(1, r.ncons, r.nvars), st, "none") :
               st \in ScipyStatuses}
           \cup
           {Outcome("TypeError", r.early, Handed(1, r.ncons, r.nvars),
                    "linprog_failure", "none")}

RunMainCell ==
    /\ nb = "main"
    /\ \E i \in 1..Len(MainCells) :
         LET r   == MainCells[i]
             ns1 == [n \in DOMAIN ns |-> IF n \in r.binds THEN "bound" ELSE ns[n]]
         IN  IF \E n \in r.needs : ns[n] = "unbound"
             THEN Finish(r.cell, ns, ort, pm, Stopped("NameError"))
             ELSE IF ~r.solves
             THEN Finish(r.cell, ns1, ort, pm, Quiet)
             ELSE \E o \in MainOutcomes(r) : Finish(r.cell, ns1, ort, pm, o)

\* A fresh kernel on one of the two notebooks.
InitKernel ==
    /\ nb \in {"rice", "main"}
    /\ ns = FreshNs(IF nb = "rice" THEN RiceNames ELSE MainNames)
    /\ ort = NoOrt
    /\ pm = NoPm
    /\ last = NoLast
    /\ ordered = 0
    /\ form = "none" /\ den = 1 /\ k = 0 /\ slack = <<>> /\ obj = 0 /\ asg = <<>>

NextKernel ==
    \/ ortools_import \/ ortools_create_solver \/ ortools_variables
    \/ ortools_objective_constraints \/ ortools_solve_a \/ ortools_solve_b
    \/ pyomo_model \/ pyomo_variables \/ pyomo_objective_constraints
    \/ pyomo_solve_a \/ pyomo_solve_b \/ pulp_8a \/ pulp_8b
    \/ RunMainCell

SpecKernel == InitKernel /\ [][NextKernel]_vars

----------------------------------------------------------------------------
(* C3.  When SolverFactory cannot create the CPLEX solver, solver is bound *)
(* to an UnknownSolver object and solver.solve raises RuntimeError, which  *)
(* nothing catches: the cell takes none of its three result branches,      *)
(* prints no status, message or variable value and no solve returns.  (In  *)
(* scenario (b) the cell is stopped earlier, by AttributeError, when the   *)
(* model has no x; solver then is the UnknownSolver of an earlier cell.)   *)

PyomoSolveCells == {"pyomo_solve_a", "pyomo_solve_b"}

UnavailableCplexAbortsCell ==
    (last.cell \in PyomoSolveCells /\ ns["solver"] = "unknown_solver") =>
        /\ last.exc = IF last.cell = "pyomo_solve_a" \/ HasComponent(pm.comps, "x")
                      THEN "RuntimeError" ELSE "AttributeError"
        /\ last.branch = "none"
        /\ last.status = "none"
        /\ ~last.handed.given
        /\ last.out \subseteq {"implicitly_replacing_warning"}

\* The recorded run: the cells executed top to bottom, CPLEX missing.
UnavailableCplexRaised ==
    /\ last.cell = "pyomo_solve_a"
    /\ ordered = 10
    /\ ns["solver"] = "unknown_solver"
    /\ last.exc = "RuntimeError"
    /\ ns["result"] = "unbound"

----------------------------------------------------------------------------
(* C4 as stated: every cell that invokes a solver and runs to its end      *)
(* prints the variable values, the objective value and the solver status.  *)

EverySolveCellPrintsAllThree ==
    (last.handed.given /\ last.exc = "none") =>
        {"values", "objective", "status"} \subseteq last.out

\* The cells that print all three parts after an optimal solve.
PrintsAllThree ==
    {MainCells[i].cell : i \in {j \in 1..Len(MainCells) :
                                   MainCells[j].lib \in {"pulp", "scipy"}}}
    \cup {"c1_p1a_ortools", "c1_p1b_ortools", "c1_p2_ortools", "c1_p6a_pyomo",
          "pulp_8a", "pulp_8b"}

(* C4, amended.  After a solve that returns an optimal status, a cell that *)
(* runs to its end has printed the variable values and the objective value *)
(* or the solver status; it has printed all three exactly when it is a     *)
(* PuLP cell, a SciPy cell, the Problem 1a, 1b or 2 OR-tools cell or the   *)
(* Problem 6a Pyomo cell.                                                  *)
SolveCellPrintsAfterOptimal ==
    (last.handed.given /\ last.exc = "none" /\ last.status \in OptimalStatuses) =>
        /\ "values" \in last.out
        /\ last.out \cap {"objective", "status"} # {}
        /\ {"values", "objective", "status"} \subseteq last.out
              <=> last.cell \in PrintsAllThree

\* The Problem 1a Pyomo cell after an optimal solve: no status.
PyomoP1aPrintsNoStatus ==
    /\ last.cell = "c1_p1a_pyomo"
    /\ last.handed = Handed(1, 2, 4)
    /\ last.exc = "none"
    /\ last.status = "ok_optimal"
    /\ last.out = {"objective", "values"}

----------------------------------------------------------------------------
(* C5 as stated: a cell executed alone in a fresh kernel binds every name  *)
(* it reads, and no cell reads the decision variables of another cell.     *)

RiceSolveCells == {"ortools_solve_a", "ortools_solve_b", "pyomo_solve_a", "pyomo_solve_b"}

EveryCellSelfContained ==
    /\ last.fresh => last.exc # "NameError"
    /\ "values" \in last.out => last.cell \notin RiceSolveCells

\* The cells that read a name they do not bind.
NotSelfContained ==
    { "ortools_create_solver", "ortools_variables", "ortools_objective_constraints",
      "ortools_solve_a", "ortools_solve_b", "pyomo_variables",
      "pyomo_objective_constraints", "pyomo_solve_a", "pyomo_solve_b",
      "c1_p1b_pyomo", "c2_p1b_pyomo" }

(* C5, amended.  A cell executed after the cells above it, top to bottom   *)
(* from a fresh kernel, finds every name it reads bound.  Executed alone   *)
(* in a fresh kernel, a cell raises NameError exactly when it is one of    *)
(* NotSelfContained.  A solve cell of the rice notebook's OR-tools or      *)
(* Pyomo section that prints variable values prints those of the variables *)
(* its section's variables cell created.                                   *)
CellsInOrderFindTheirNames ==
    /\ ordered >= 1 => last.exc # "NameError"
    /\ last.fresh => (last.exc = "NameError" <=> last.cell \in NotSelfContained)
    /\ ("values" \in last.out /\ last.cell \in {"ortools_solve_a", "ortools_solve_b"})
           => ns["x"] \in {"intvars", "intvars_stale"}
    /\ ("values" \in last.out /\ last.cell \in PyomoSolveCells)
           => HasComponent(pm.comps, "x")

\* The OR-tools solve cell of scenario (a), run fifth after the four cells
\* above it, prints the values of the x that the variables cell bound.
OrtoolsSolveReadsX ==
    /\ last.cell = "ortools_solve_a"
    /\ ordered = 5
    /\ ~last.fresh
    /\ last.exc = "none"
    /\ "values" \in last.out
    /\ ns["x"] = "intvars"

----------------------------------------------------------------------------
(* C6.  Assigning a component to a name the model already holds replaces   *)
(* the component of that name: no name is held twice.  Whenever the        *)
(* objective/constraints cell has run to its end, however often, the model *)
(* holds exactly one objective and each of the six named constraints once, *)
(* and no constraint besides them but the no_ir8_field_i of scenario (b),  *)
(* if that cell has run on the model.  The model with an objective that    *)
(* the scenario-(b) cell hands to the solver has exactly 7 constraints     *)
(* over 9 variables.                                                       *)

PyomoModelHoldsNoDuplicates ==
    /\ \A i, j \in 1..Len(pm.comps) : pm.comps[i].name = pm.comps[j].name => i = j
    /\ (last.cell = "pyomo_objective_constraints" /\ last.exc = "none") =>
          /\ CountKind(pm.comps, "Objective") = 1
          /\ \A i \in 2..7 : CountName(pm.comps, pyomo_components[i].name) = 1
          /\ CountKind(pm.comps, "Constraint") = 6 + CountName(pm.comps, "no_ir8_field_i")
    /\ (last.cell = "pyomo_solve_b" /\ last.handed.given /\ last.handed.objectives = 1) =>
          /\ last.handed.constraints = 7
          /\ last.handed.variables = 9

\* The objective/constraints cell executed again on a model that already
\* holds its seven components: the warnings are logged, the model still
\* holds x, one objective and six constraints.
PyomoObjectiveCellReexecuted ==
    /\ last.cell = "pyomo_objective_constraints"
    /\ last.exc = "none"
    /\ "implicitly_replacing_warning" \in last.out
    /\ Len(pm.comps) = 8
    /\ CountKind(pm.comps, "Objective") = 1
    /\ CountKind(pm.comps, "Constraint") = 6

----------------------------------------------------------------------------
(* C14.  In the rice notebook the result-printing code of the OR-tools and *)
(* Pyomo solve cells prints variable values only when the returned status  *)
(* is the optimal one (OPTIMAL; status ok with termination condition       *)
(* optimal), and then none of the fallback messages.  For every other      *)
(* returned status the cell raises nothing, prints no variable value and   *)
(* prints exactly one fallback: the not-optimal message of the OR-tools    *)
(* cells, or of the Pyomo cells either the no-feasible-solution message    *)
(* or the solver-status line.  One branch is taken for every status.       *)

\* The prints of the branches other than the optimal one; "status" is one of
\* them when it is the "Solver Status:" line of the last Pyomo branch.
FallbackPrints == {"not_optimal_message", "no_feasible_message", "status"}

StatusBranchesExclusiveExhaustive ==
    (last.cell \in RiceSolveCells /\ last.status # "none") =>
        /\ last.branch \in {"optimal", "else", "infeasible", "other"}
        /\ last.branch = "optimal" <=> last.status \in OptimalStatuses
        /\ "values" \in last.out => last.status \in OptimalStatuses
        /\ last.status \in OptimalStatuses =>
              last.out \cap {"not_optimal_message", "no_feasible_message"} = {}
        /\ last.status \notin OptimalStatuses =>
              /\ last.exc = "none"
              /\ "values" \notin last.out
              /\ Cardinality(last.out \cap FallbackPrints) = 1

\* The Pyomo scenario-(a) cell after a solve that returned status ok with
\* termination condition infeasible: the one message, no value.
PyomoInfeasiblePrintsOneMessage ==
    /\ last.cell = "pyomo_solve_a"
    /\ last.status = "ok_infeasible"
    /\ last.branch = "infeasible"
    /\ last.out = {"no_feasible_message"}
    /\ last.exc = "none"

\* The scenario-(a) OR-tools cell after a Solve() that returned
\* MODEL_INVALID: the else branch, its one message, no value.
OrtoolsModelInvalidPrintsOneMessage ==
    /\ last.cell = "ortools_solve_a"
    /\ last.status = "MODEL_INVALID"
    /\ last.branch = "else"
    /\ last.out = {"not_optimal_message"}
    /\ last.exc = "none"

----------------------------------------------------------------------------
(* C15 as stated: the PuLP cells have no status guard.  Whatever status    *)
(* prob.solve() returns, Infeasible included, a PuLP cell raises nothing   *)
(* and prints the status line, then the "Optimal value" line and one       *)
(* value line per decision variable.  It does not hold of the Problem 5    *)
(* cell, which prints its four values on one line.                         *)

PulpCells ==
    {"pulp_8a", "pulp_8b"} \cup
    {MainCells[i].cell : i \in {j \in 1..Len(MainCells) : MainCells[j].lib = "pulp"}}

PulpPrintsOneLinePerVariable ==
    last.cell \in PulpCells =>
        /\ last.exc = "none"
        /\ last.status \in PulpStatuses
        /\ last.handed.given
        /\ last.out = {"status", "objective", "values"}
        /\ last.value_lines = last.handed.variables

(* C15, corrected.  Whatever status prob.solve() returns, Infeasible       *)
(* included, a PuLP cell of either notebook raises nothing and prints the  *)
(* status line, then the "Optimal value" line and the values of all its    *)
(* decision variables: one line per variable, but in the Problem 5 cell    *)
(* one line that holds the four values.                                    *)

PulpPrintsWhateverTheStatus ==
    last.cell \in PulpCells =>
        /\ last.exc = "none"
        /\ last.status \in PulpStatuses
        /\ last.handed.given
        /\ last.out = {"status", "objective", "values"}
        /\ last.value_lines = IF last.cell = "c2_p5_pulp" THEN 1
                              ELSE last.handed.variables

\* The Problem 4 cell of the first copy after a solve that returned
\* Infeasible: "Status: Infeasible", then the "Optimal value" line and the
\* four value lines all the same.
PulpP4InfeasibleStillPrints ==
    /\ nb = "main"
    /\ last.cell = "c1_p4_pulp"
    /\ last.status = "Infeasible"
    /\ {"objective", "values"} \subseteq last.out
    /\ last.value_lines = 4

\* The Problem 5 cell after a solve that returned Infeasible: status line,
\* "Optimal value" line and one line with the values of xA, xB, xC and xD.
PulpP5PrintsOneValueLine ==
    /\ nb = "main"
    /\ last.cell = "c2_p5_pulp"
    /\ last.status = "Infeasible"
    /\ last.out = {"status", "objective", "values"}
    /\ last.handed.variables = 4
    /\ last.value_lines = 1

----------------------------------------------------------------------------
(* C16.  In an OR-tools cell guarded by "if not solver", a CreateSolver    *)
(* that returns no solver makes the cell print the unavailability message  *)
(* and go on into the creation of the variables, where AttributeError is   *)
(* raised and not caught: the message is printed exactly when the cell     *)
(* ends with that exception, and then nothing was handed to a solver, no   *)
(* status was returned and nothing else was printed.                       *)

GuardedOrtoolsCells ==
    {MainCells[i].cell : i \in {j \in 1..Len(MainCells) : MainCells[j].guard}}

GuardDoesNotStopTheCell ==
    last.cell \in GuardedOrtoolsCells =>
        /\ "unavailable_message" \in last.out <=> last.exc = "AttributeError"
        /\ "unavailable_message" \in last.out =>
              /\ last.out = {"unavailable_message"}
              /\ ~last.handed.given
              /\ last.status = "none"
        /\ last.exc \in {"none", "AttributeError"}

\* The OR-tools cell of Problem 3 after CreateSolver('SCIP') returned None.
OrtoolsP3UnavailableRaised ==
    /\ nb = "main"
    /\ last.cell = "c1_p3_ortools"
    /\ last.out = {"unavailable_message"}
    /\ last.exc = "AttributeError"

----------------------------------------------------------------------------
(* C17.  In the rice notebook no cell removes a constraint.  As long as    *)
(* solver is the same OR-tools solver object (no cell has created another  *)
(* or dropped it) its rows only grow in number, and as long as model is    *)
(* the same Pyomo model its set of constraint names only grows.  Every     *)
(* solve hands all of them to the solver: once a scenario-(b) cell has     *)
(* added x[I,IR8] = 0, every later solve of that solver or model, by the   *)
(* scenario-(a) cell as well, has that constraint among its constraints.   *)

ConstraintNames(m) ==
    {m.comps[i].name : i \in {j \in 1..Len(m.comps) : m.comps[j].kind = "Constraint"}}

OrtoolsSolveCells == {"ortools_solve_a", "ortools_solve_b"}

ConstraintsGrowStep ==
    /\ (ort.made /\ ort'.made /\ last'.cell # "ortools_create_solver") =>
          /\ ort'.rows >= ort.rows
          /\ ort'.no_ir8 >= ort.no_ir8
    /\ (pm.made /\ pm'.made /\ last'.cell # "pyomo_model") =>
          ConstraintNames(pm) \subseteq ConstraintNames(pm')
    /\ (last'.cell \in OrtoolsSolveCells /\ last'.handed.given) =>
          /\ ort'.made
          /\ last'.handed.constraints = ort'.rows + ort'.no_ir8
          /\ last'.cell = "ortools_solve_b" => ort'.no_ir8 >= 1
    /\ (last'.cell \in PyomoSolveCells /\ last'.handed.given) =>
          /\ pm'.made
          /\ last'.handed.constraints = Cardinality(ConstraintNames(pm'))
          /\ last'.cell = "pyomo_solve_b" => "no_ir8_field_i" \in ConstraintNames(pm')

ConstraintsOnlyGrow == [][ConstraintsGrowStep]_vars

\* The scenario-(a) cell executed again after the scenario-(b) cell, on the
\* same solver: Solve() is given the six rows and x[I,IR8] = 0.
OrtoolsSolveAAfterB ==
    /\ last.cell = "ortools_solve_a"
    /\ last.status = "OPTIMAL"
    /\ ort.rows = 6
    /\ ort.no_ir8 = 1
    /\ last.handed.constraints = 7

----------------------------------------------------------------------------
(* C18 as stated: in the rice notebook, executing a cell of a later        *)
(* section (Pyomo/CPLEX, PuLP) leaves the names solver and x as they were, *)
(* so that the OR-tools solve cells still read the OR-tools solver and its *)
(* (field, rice)-keyed variables.  It does not hold: the Pyomo solve cells *)
(* assign "solver = SolverFactory('cplex', ...)" and the PuLP cells assign *)
(* "x = [[pulp.LpVariable(...) ...] ...]".                                 *)

LaterSectionCells ==
    {"pyomo_model", "pyomo_variables", "pyomo_objective_constraints",
     "pyomo_solve_a", "pyomo_solve_b", "pulp_8a", "pulp_8b"}

LaterSectionsKeepSolverAndX ==
    [][last'.cell \in LaterSectionCells =>
          /\ ns["solver"] = "ortools" => ns'["solver"] = "ortools"
          /\ ns["x"] = "intvars" => ns'["x"] = "intvars"]_vars

\* What happens instead.  An OR-tools solve cell executed while solver is
\* what a Pyomo solve cell bound it to stops at solver.Solve() or
\* solver.Add(): AttributeError on the CPLEX solver object, RuntimeError on
\* the UnknownSolver of a missing executable.  Executed while x is the list
\* of lists of a PuLP cell, x[(f, r)] raises TypeError.  No values are
\* printed in either case.
OrtoolsSolveAfterLaterSection ==
    last.cell \in OrtoolsSolveCells =>
        /\ ns["solver"] = "cplex" => (last.exc = "AttributeError" /\ last.out = {})
        /\ ns["solver"] = "unknown_solver" => (last.exc = "RuntimeError" /\ last.out = {})
        /\ ns["x"] = "lpvars" =>
              /\ last.exc \in {"NameError", "AttributeError", "RuntimeError", "TypeError"} \/
                 last.status \notin OptimalStatuses
              /\ "values" \notin last.out

\* The scenario-(a) OR-tools cell executed again after a Pyomo solve cell
\* had bound solver to the CPLEX solver object.
OrtoolsSolveARaisesOnCplex ==
    /\ last.cell = "ortools_solve_a"
    /\ ns["solver"] = "cplex"
    /\ last.exc = "AttributeError"

\* The scenario-(a) OR-tools cell executed again after a PuLP cell, solver
\* still the OR-tools solver: the solve returns OPTIMAL, the status line is
\* printed and the first x[(f, r)] raises.
OrtoolsSolveARaisesOnPulpX ==
    /\ last.cell = "ortools_solve_a"
    /\ ns["solver"] = "ortools"
    /\ ns["x"] = "lpvars"
    /\ last.status = "OPTIMAL"
    /\ last.exc = "TypeError"
    /\ last.out = {"status"}

====
